---- MODULE Spec2Model ----
(***************************************************************************)
(* Spherical k-means (runSPKMeans of spkmeans.cpp).                        *)
(*                                                                         *)
(* A C++ float is modelled as a fixed-point number: the integer n stands   *)
(* for the value n / SCALE, every multiplication, division and square root *)
(* rounds to the nearest representable value, and NaN is a distinct value  *)
(* that every arithmetic operation propagates and every comparison rejects *)
(* (IEEE 754: a comparison with NaN is false).                             *)
(*                                                                         *)
(* Document references (the float* entries of a partition) are 0-based     *)
(* indices into doc_matrix, partitions and concepts are indexed 0..k-1 as  *)
(* in the source; vectors are sequences 1..wc.                             *)
(***************************************************************************)
EXTENDS Integers, Sequences, FiniteSets, TLC

(***************************************************************************)
(* Bounds of the model                                                     *)
(***************************************************************************)
\* longest document matrix built from DocPool
MaxDc == 3
\* cap of the iteration counter (the loop of the source has none)
MaxIter == 6

(***************************************************************************)
(* float arithmetic                                                        *)
(***************************************************************************)
SCALE == 10000
NaN == -2000000000

IsNaN(a) == a = NaN

\* the element of a singleton set; the operators below bind each operand
\* to a variable so that it is evaluated once
The(S) == CHOOSE r \in S : TRUE

\* n / d rounded to the nearest integer, n >= 0, d > 0
Round(n, d) ==
    The({ (x \div y) + (IF 2 * (x % y) >= y THEN 1 ELSE 0) :
          x \in {n}, y \in {d} })

FAdd(a, b) ==
    The({ IF IsNaN(x) \/ IsNaN(y) THEN NaN ELSE x + y : x \in {a}, y \in {b} })

FSub(a, b) ==
    The({ IF IsNaN(x) \/ IsNaN(y) THEN NaN ELSE x - y : x \in {a}, y \in {b} })

FMul(a, b) ==
    The({ IF IsNaN(x) \/ IsNaN(y) THEN NaN ELSE Round(x * y, SCALE) :
          x \in {a}, y \in {b} })

\* the only division by zero the program can perform is 0 / 0 (a vector
\* divided by its own norm), which is NaN
FDiv(a, b) ==
    The({ IF IsNaN(x) \/ IsNaN(y) \/ y = 0 THEN NaN
          ELSE Round(x * SCALE, y) : x \in {a}, y \in {b} })

RECURSIVE SqrtSearch(_, _, _)
\* the largest r in lo..hi with r * r <= n
SqrtSearch(n, lo, hi) ==
    The({ IF l = h THEN l
          ELSE The({ IF mid * mid <= n THEN SqrtSearch(n, mid, h)
                     ELSE SqrtSearch(n, l, mid - 1) :
                     mid \in { (l + h + 1) \div 2 } }) :
          l \in {lo}, h \in {hi} })

\* the integer nearest to the square root of n
NearestRoot(n) ==
    The({ IF n - r * r > r THEN r + 1 ELSE r :
          r \in { SqrtSearch(n, 0, 46340) } })

FSqrt(a) ==
    The({ IF IsNaN(x) THEN NaN ELSE NearestRoot(x * SCALE) : x \in {a} })

FGt(a, b) == \E x \in {a}, y \in {b} : ~IsNaN(x) /\ ~IsNaN(y) /\ x > y

FGe(a, b) == \E x \in {a}, y \in {b} : ~IsNaN(x) /\ ~IsNaN(y) /\ x >= y

FLe(a, b) == \E x \in {a}, y \in {b} : ~IsNaN(x) /\ ~IsNaN(y) /\ x <= y

\* the float value of the integer n
IntToFloat(n) == n * SCALE

RECURSIVE FSum(_, _)
\* f[1] + ... + f[n], accumulated from 0 in index order
FSum(f, n) == IF n = 0 THEN 0 ELSE FAdd(FSum(f, n - 1), f[n])

(***************************************************************************)
(* vectors.h                                                               *)
(***************************************************************************)
vec_dot(a, b, wc) == FSum([i \in 1..wc |-> FMul(a[i], b[i])], wc)

vec_norm(a, wc) == FSqrt(vec_dot(a, a, wc))

vec_sum(vecs, wc, num) ==
    [i \in 1..wc |-> FSum([j \in 1..num |-> vecs[j][i]], num)]

vec_multiply(a, wc, s) == [i \in 1..wc |-> FMul(a[i], s)]

vec_divide(a, wc, s) == [i \in 1..wc |-> FDiv(a[i], s)]

vec_normalize(a, wc) == vec_divide(a, wc, vec_norm(a, wc))

(***************************************************************************)
(* Program constants and inputs                                            *)
(***************************************************************************)
Q_THRESHOLD == SCALE \div 1000

\* float dQ = Q_THRESHOLD * 10
InitialDQAtThreshold == Q_THRESHOLD

InitialDQ == Q_THRESHOLD * 10

\* document vectors (wc = 2) the enumerated matrices are built from:
\* [0,0], [1,0], [0,1], [1,0.1], [0.1,1]
DocPool ==
    { <<0, 0>>, <<10000, 0>>, <<0, 10000>>, <<10000, 1000>>,
      <<1000, 10000>> }

PoolMatrices == UNION { [1..n -> DocPool] : n \in 1..MaxDc }

\* [[1,0],[0,1],[1,0.1],[0.1,1]]
ScenarioDocs ==
    << <<10000, 0>>, <<0, 10000>>, <<10000, 1000>>, <<1000, 10000>> >>

\* [[0.8,0.1],[0.7,0.1],[1,0.2],[0,0.1],[0.4,0.3]]
SlowStartDocs ==
    << <<8000, 1000>>, <<7000, 1000>>, <<10000, 2000>>, <<0, 1000>>,
       <<4000, 3000>> >>

\* [[0.09,0.03],[0.03,0.03],[0.01,0.05],[0.05,0.01],[0.01,0.01],[0.02,0.06]]
SwapDocs ==
    << <<900, 300>>, <<300, 300>>, <<100, 500>>, <<500, 100>>,
       <<100, 100>>, <<200, 600>> >>

\* [[0.1,0.4,0.7],[0.2,0.7,0.7],[0.1,0.5,0.9],[0.3,0.8,0.8]]
ThreeWordDocs ==
    << <<1000, 4000, 7000>>, <<2000, 7000, 7000>>, <<1000, 5000, 9000>>,
       <<3000, 8000, 8000>> >>

InputMatrices ==
    PoolMatrices
        \cup { ScenarioDocs, SlowStartDocs, SwapDocs, ThreeWordDocs }

(***************************************************************************)
(* State                                                                   *)
(***************************************************************************)
VARIABLES
    input,          \* the document-term matrix as the caller supplied it
    doc_matrix,     \* float **doc_matrix, normalized in place
    k,              \* unsigned int k
    pc,             \* position in runSPKMeans
    i,              \* index of the partition or document loop
    base,           \* int base of the first partitioning
    partitions,     \* data.partitions: 0..k-1 -> sequence of references
    p_sizes,        \* data.p_sizes
    concepts,       \* data.concepts
    quality,        \* float quality
    dQ,             \* float dQ
    iterations,     \* int iterations
    new_partitions, \* vector<float*> *new_partitions
    dQs,            \* the dQ values printed so far, one per iteration
    assignSteps     \* number of assignment steps performed so far

vars == << input, doc_matrix, k, pc, i, base, partitions, p_sizes, concepts,
           quality, dQ, iterations, new_partitions, dQs, assignSteps >>

dc == Len(doc_matrix)

wc == Len(doc_matrix[1])

\* int split = floor(dc / k)
split == dc \div k

(***************************************************************************)
(* Helpers of spkmeans.cpp                                                 *)
(***************************************************************************)
\* the document vectors a partition refers to
Members(docs, partition, p_size) ==
    [j \in 1..p_size |-> docs[partition[j] + 1]]

txnScheme(docs) ==
    [d \in 1..Len(docs) |-> vec_normalize(docs[d], Len(docs[d]))]

computeQuality1(partition, p_size, concept, n) ==
    vec_dot(vec_sum(partition, n, p_size), concept, n)

RECURSIVE QualityUpTo(_, _, _, _, _)
\* quality after the first n partitions were added, starting from 0
QualityUpTo(docs, parts, sizes, cs, n) ==
    IF n = 0 THEN 0
    ELSE FAdd(QualityUpTo(docs, parts, sizes, cs, n - 1),
              computeQuality1(Members(docs, parts[n - 1], sizes[n - 1]),
                              sizes[n - 1], cs[n - 1], Len(docs[1])))

computeQuality(docs, parts, sizes, cs, kk) ==
    QualityUpTo(docs, parts, sizes, cs, kk)

cosineSimilarity(dv, cv, n) ==
    FDiv(vec_dot(dv, cv, n), FMul(vec_norm(dv, n), vec_norm(cv, n)))

computeConcept(partition, p_size, n) ==
    LET cv1 == vec_sum(partition, n, p_size)
        cv2 == vec_multiply(cv1, n, FDiv(IntToFloat(1), IntToFloat(n)))
    IN  vec_divide(cv2, n, vec_norm(cv2, n))

computeConcepts(docs, parts, sizes, kk) ==
    [p \in 0..(kk - 1) |->
        computeConcept(Members(docs, parts[p], sizes[p]), sizes[p],
                       Len(docs[1]))]

\* if(new_cVal > cVal)
Better(new_cVal, cVal) == FGt(new_cVal, cVal)

RECURSIVE NearestFromStale(_, _, _, _, _, _)
\* the inner loop without cVal = new_cVal
NearestFromStale(dv, cs, kk, j, cIndx, cVal) ==
    IF j >= kk THEN cIndx
    ELSE The({ IF Better(new_cVal, cVal)
               THEN NearestFromStale(dv, cs, kk, j + 1, j, cVal)
               ELSE NearestFromStale(dv, cs, kk, j + 1, cIndx, cVal) :
               new_cVal \in { cosineSimilarity(dv, cs[j], Len(dv)) } })

RECURSIVE NearestFrom(_, _, _, _, _, _)
\* the inner loop over j = 1..k-1 of the assignment step
NearestFrom(dv, cs, kk, j, cIndx, cVal) ==
    IF j >= kk THEN cIndx
    ELSE The({ IF Better(new_cVal, cVal)
               THEN NearestFrom(dv, cs, kk, j + 1, j, new_cVal)
               ELSE NearestFrom(dv, cs, kk, j + 1, cIndx, cVal) :
               new_cVal \in { cosineSimilarity(dv, cs[j], Len(dv)) } })

\* cIndx of one document
Nearest(dv, cs, kk) ==
    The({ NearestFrom(dv, cs, kk, 1, 0, cVal) :
          cVal \in { cosineSimilarity(dv, cs[0], Len(dv)) } })

\* while(dQ > Q_THRESHOLD)
LoopCondNonZero(d) == ~IsNaN(d) /\ d # 0

LoopCondNonNegative(d) == FGe(d, 0)

LoopCond(d) == FGt(d, Q_THRESHOLD)

(***************************************************************************)
(* runSPKMeans                                                             *)
(***************************************************************************)
Init ==
    /\ input \in InputMatrices
    /\ doc_matrix = input
    /\ k \in 1..Len(input)
    /\ pc = "txn"
    /\ i = 0
    /\ base = 1
    /\ partitions = [p \in 0..(k - 1) |-> << >>]
    /\ p_sizes = [p \in 0..(k - 1) |-> 0]
    /\ concepts = [p \in 0..(k - 1) |-> << >>]
    /\ quality = 0
    /\ dQ = 0
    /\ iterations = 0
    /\ new_partitions = [p \in 0..(k - 1) |-> << >>]
    /\ dQs = << >>
    /\ assignSteps = 0

\* txnScheme(doc_matrix, dc, wc)
Normalize ==
    /\ pc = "txn"
    /\ doc_matrix' = txnScheme(doc_matrix)
    /\ pc' = "partition"
    /\ UNCHANGED << input, k, i, base, partitions, p_sizes, concepts,
                    quality, dQ, iterations, new_partitions, dQs,
                    assignSteps >>

\* partitions[i][j] = doc_matrix[base + j - 1]
DocRefOffByOne(b, j) == b + j

DocRef(b, j) == b + j - 1

\* int top = base + split - 1; if(i == k-1) top = dc;
TopNoRemainder(p) == base + split - 1

Top(p) == IF p = k - 1 THEN dc ELSE base + split - 1

\* one round of the loop that creates the first arbitrary partitioning
CreatePartition ==
    /\ pc = "partition"
    /\ i < k
    /\ LET p_size == Top(i) - base + 1
       IN  /\ p_sizes' = [p_sizes EXCEPT ![i] = p_size]
           /\ partitions' =
                [partitions EXCEPT
                    ![i] = [j \in 1..p_size |-> DocRef(base, j - 1)]]
    /\ base' = base + split
    /\ i' = i + 1
    /\ pc' = IF i + 1 < k THEN "partition" ELSE "concepts"
    /\ UNCHANGED << input, doc_matrix, k, concepts, quality, dQ, iterations,
                    new_partitions, dQs, assignSteps >>

\* compute concept vectors
InitConcepts ==
    /\ pc = "concepts"
    /\ concepts' = computeConcepts(doc_matrix, partitions, p_sizes, k)
    /\ pc' = "quality"
    /\ UNCHANGED << input, doc_matrix, k, i, base, partitions, p_sizes,
                    quality, dQ, iterations, new_partitions, dQs,
                    assignSteps >>

\* compute initial quality of the partitions; dQ and iterations are set
InitQuality ==
    /\ pc = "quality"
    /\ quality' = computeQuality(doc_matrix, partitions, p_sizes, concepts, k)
    /\ dQ' = InitialDQ
    /\ iterations' = 0
    /\ pc' = "test"
    /\ UNCHANGED << input, doc_matrix, k, i, base, partitions, p_sizes,
                    concepts, new_partitions, dQs, assignSteps >>

\* the loop condition holds: iterations++, fresh new_partitions
LoopEnter ==
    /\ pc = "test"
    /\ LoopCond(dQ)
    /\ iterations < MaxIter
    /\ iterations' = iterations + 1
    /\ new_partitions' = [p \in 0..(k - 1) |-> << >>]
    /\ i' = 0
    /\ pc' = "assign"
    /\ UNCHANGED << input, doc_matrix, k, base, partitions, p_sizes, concepts,
                    quality, dQ, dQs, assignSteps >>

\* the loop condition fails: the function returns data
LoopExit ==
    /\ pc = "test"
    /\ ~LoopCond(dQ)
    /\ pc' = "done"
    /\ UNCHANGED << input, doc_matrix, k, i, base, partitions, p_sizes,
                    concepts, quality, dQ, iterations, new_partitions, dQs,
                    assignSteps >>

\* one round of the loop over the documents of the assignment step
AssignDoc ==
    /\ pc = "assign"
    /\ i < dc
    /\ LET cIndx == Nearest(doc_matrix[i + 1], concepts, k)
       IN  new_partitions' =
             [new_partitions EXCEPT ![cIndx] = Append(@, i)]
    /\ i' = i + 1
    /\ pc' = IF i + 1 < dc THEN "assign" ELSE "transfer"
    /\ assignSteps' = IF i + 1 < dc THEN assignSteps ELSE assignSteps + 1
    /\ UNCHANGED << input, doc_matrix, k, base, partitions, p_sizes, concepts,
                    quality, dQ, iterations, dQs >>

\* transfer the new partitions to the partitions array
Transfer ==
    /\ pc = "transfer"
    /\ partitions' = new_partitions
    /\ p_sizes' = [p \in 0..(k - 1) |-> Len(new_partitions[p])]
    /\ pc' = "recompute"
    /\ UNCHANGED << input, doc_matrix, k, i, base, concepts, quality, dQ,
                    iterations, new_partitions, dQs, assignSteps >>

\* compute new concept vectors
RecomputeSkip ==
    /\ pc = "recompute"
    /\ concepts' = concepts
    /\ pc' = "evaluate"
    /\ UNCHANGED << input, doc_matrix, k, i, base, partitions, p_sizes,
                    quality, dQ, iterations, new_partitions, dQs,
                    assignSteps >>

Recompute ==
    /\ pc = "recompute"
    /\ concepts' = computeConcepts(doc_matrix, partitions, p_sizes, k)
    /\ pc' = "evaluate"
    /\ UNCHANGED << input, doc_matrix, k, i, base, partitions, p_sizes,
                    quality, dQ, iterations, new_partitions, dQs,
                    assignSteps >>

\* compute quality of new partitioning
EvaluateKeepQuality ==
    /\ pc = "evaluate"
    /\ LET n_quality ==
             computeQuality(doc_matrix, partitions, p_sizes, concepts, k)
       IN  /\ dQ' = FSub(n_quality, quality)
           /\ quality' = quality
           /\ dQs' = Append(dQs, FSub(n_quality, quality))
    /\ pc' = "test"
    /\ UNCHANGED << input, doc_matrix, k, i, base, partitions, p_sizes,
                    concepts, iterations, new_partitions, assignSteps >>

Evaluate ==
    /\ pc = "evaluate"
    /\ LET n_quality ==
             computeQuality(doc_matrix, partitions, p_sizes, concepts, k)
       IN  /\ dQ' = FSub(n_quality, quality)
           /\ quality' = n_quality
           /\ dQs' = Append(dQs, FSub(n_quality, quality))
    /\ pc' = "test"
    /\ UNCHANGED << input, doc_matrix, k, i, base, partitions, p_sizes,
                    concepts, iterations, new_partitions, assignSteps >>

Next ==
    \/ Normalize
    \/ CreatePartition
    \/ InitConcepts
    \/ InitQuality
    \/ LoopEnter
    \/ LoopExit
    \/ AssignDoc
    \/ Transfer
    \/ Recompute
    \/ Evaluate

Spec == Init /\ [][Next]_vars

\* the program is sequential and runs until it returns
FairSpec == Spec /\ WF_vars(Next)

(***************************************************************************)
(* Properties                                                              *)
(***************************************************************************)
Range(f) == { f[x] : x \in DOMAIN f }

HasZeroDoc(m) == \E d \in 1..Len(m) : \A c \in 1..Len(m[d]) : m[d][c] = 0

HasNaNDoc(m) == \E d \in 1..Len(m) : \E c \in 1..Len(m[d]) : IsNaN(m[d][c])

Partitioned == pc \notin { "txn", "partition" }

NoEmptyPartition == \A p \in 0..(k - 1) : p_sizes[p] > 0

\* no all-zero document vector and no partition has become empty
NonDegenerateRun ==
    /\ ~HasZeroDoc(input)
    /\ Partitioned => NoEmptyPartition

RECURSIVE SumSizes(_, _)
SumSizes(sizes, n) == IF n = 0 THEN 0 ELSE SumSizes(sizes, n - 1) + sizes[n - 1]

\* the places where partitions refer to document d
RefsTo(parts, sizes, d) ==
    { pj \in UNION { { <<p, j>> : j \in 1..sizes[p] } : p \in 0..(k - 1) } :
        parts[pj[1]][pj[2]] = d }

ExactlyOnce(parts, sizes) ==
    /\ \A p \in 0..(k - 1) : sizes[p] = Len(parts[p])
    /\ \A d \in 0..(dc - 1) : Cardinality(RefsTo(parts, sizes, d)) = 1
    /\ \A p \in 0..(k - 1) : Range(parts[p]) \subseteq 0..(dc - 1)

\* C1: once the first partitioning is complete, and after every assignment
\* step, every document is referenced by exactly one partition and the
\* partition sizes add up to dc.
C1_PartitionInvariant ==
    /\ Partitioned =>
         /\ ExactlyOnce(partitions, p_sizes)
         /\ SumSizes(p_sizes, k) = dc
    /\ pc = "transfer" =>
         ExactlyOnce(new_partitions,
                     [p \in 0..(k - 1) |-> Len(new_partitions[p])])

C1_Witness ==
    /\ pc = "recompute"
    /\ iterations = 2
    /\ k >= 2
    /\ dc % k # 0
    /\ NoEmptyPartition

\* the block of documents the first partitioning gives partition p
Block(p) ==
    LET first == p * (dc \div k)
        last == IF p = k - 1 THEN dc - 1 ELSE (p + 1) * (dc \div k) - 1
    IN  [j \in 1..(last - first + 1) |-> first + j - 1]

\* C7: the first partitioning gives partition p < k-1 the documents
\* p*floor(dc/k) .. (p+1)*floor(dc/k)-1 in order and the last partition the
\* documents (k-1)*floor(dc/k) .. dc-1; the blocks depend on dc and k only.
C7_InitialPartitionContiguous ==
    /\ pc = "partition" => \A p \in 0..(i - 1) : partitions[p] = Block(p)
    /\ pc \in { "concepts", "quality" } =>
         \A p \in 0..(k - 1) :
            partitions[p] = Block(p) /\ p_sizes[p] = Len(Block(p))

C7_Witness ==
    /\ pc = "concepts"
    /\ k >= 2
    /\ dc % k # 0
    /\ Len(partitions[k - 1]) > dc \div k

\* C2: the loop runs at least one iteration; every iteration that was
\* followed by another one had dQ > Q_THRESHOLD, the loop is left after the
\* first iteration whose dQ is not above Q_THRESHOLD, and the iteration
\* counter equals the number of assignment steps performed.
C2_LoopStopsAtFirstSmallDQ ==
    /\ \A j \in 1..Len(dQs) :
         (j < Len(dQs) \/ pc \notin { "test", "done" }) =>
            FGt(dQs[j], Q_THRESHOLD)
    /\ pc \in { "test", "done" } =>
         /\ iterations = Len(dQs)
         /\ iterations = assignSteps
    /\ pc = "done" =>
         /\ iterations >= 1
         /\ dQ = dQs[Len(dQs)]
         /\ ~FGt(dQ, Q_THRESHOLD)
         /\ ~IsNaN(dQ) => FLe(dQ, Q_THRESHOLD)

C2_Witness ==
    /\ pc = "done"
    /\ iterations >= 2
    /\ FLe(dQ, Q_THRESHOLD)

RECURSIVE AssignUpTo(_, _, _, _)
\* the new partitions after the first n documents were assigned
AssignUpTo(docs, cs, kk, n) ==
    IF n = 0 THEN [p \in 0..(kk - 1) |-> << >>]
    ELSE LET prev == AssignUpTo(docs, cs, kk, n - 1)
             cIndx == Nearest(docs[n], cs, kk)
         IN  [prev EXCEPT ![cIndx] = Append(@, n - 1)]

\* one more assignment + recomputation + evaluation on the current state
ExtraPartitions == AssignUpTo(doc_matrix, concepts, k, dc)

ExtraSizes == [p \in 0..(k - 1) |-> Len(ExtraPartitions[p])]

ExtraConcepts == computeConcepts(doc_matrix, ExtraPartitions, ExtraSizes, k)

ExtraDQ ==
    FSub(computeQuality(doc_matrix, ExtraPartitions, ExtraSizes,
                        ExtraConcepts, k),
         quality)

Converged == pc = "done" /\ FLe(dQ, Q_THRESHOLD)

\* C4 (as claimed): one more iteration on the state the loop returned with
\* dQ <= Q_THRESHOLD yields a dQ that is not above Q_THRESHOLD either.
C4_IdempotentAtConvergence == Converged => ~FGt(ExtraDQ, Q_THRESHOLD)

\* C4 (amended): one more iteration on the returned state yields dQ = 0,
\* hence <= Q_THRESHOLD, whenever its assignment step leaves the returned
\* partitions unchanged.
C4_IdempotentAtFixedPoint ==
    (Converged /\ ExtraPartitions = partitions) => ExtraDQ = 0

C4_Witness ==
    /\ Converged
    /\ ExtraPartitions = partitions
    /\ iterations >= 2
    /\ k >= 2
    /\ NoEmptyPartition

ScenarioRun == input = ScenarioDocs /\ k = 2 /\ pc = "done"

\* C5: on [[1,0],[0,1],[1,0.1],[0.1,1]] with k = 2 the run ends within 5
\* iterations with the partitions {0,2} and {1,3}.
C5_ScenarioSeparates ==
    ScenarioRun =>
        /\ iterations <= 5
        /\ { Range(partitions[0]), Range(partitions[1]) }
              = { { 0, 2 }, { 1, 3 } }

\* C6: an all-zero document vector is reported by the
\* normalization step: no NaN document vector is produced and the
\* clustering does not proceed.
C6_ZeroDocReported ==
    /\ ~HasNaNDoc(doc_matrix)
    /\ HasZeroDoc(input) => pc = "txn"

\* C8: with k = 1 and no all-zero document the single partition holds all
\* dc documents from the first partitioning on, there is one concept
\* vector, and the loop ends after exactly one iteration.
C8_SinglePartition ==
    (k = 1 /\ ~HasZeroDoc(input)) =>
        /\ iterations <= 1
        /\ Partitioned =>
             /\ partitions[0] = [j \in 1..dc |-> j - 1]
             /\ DOMAIN concepts = { 0 }
        /\ pc = "done" => iterations = 1 /\ dQ = 0

C8_Witness ==
    /\ k = 1
    /\ ~HasZeroDoc(input)
    /\ dc >= 3
    /\ pc = "done"
    /\ iterations = 1

Cos(d, p) == cosineSimilarity(doc_matrix[d + 1], concepts[p], wc)

\* the partition document d was put in is the lowest-indexed one of maximum
\* cosine similarity: no concept vector is more similar, and no concept
\* vector of a lower index is as similar
NearestChosen(d, p) ==
    \A q \in 0..(k - 1) :
        /\ ~FGt(Cos(d, q), Cos(d, p))
        /\ q < p => ~FGe(Cos(d, q), Cos(d, p))

AssignedNearest ==
    pc \in { "assign", "transfer" } =>
        \A p \in 0..(k - 1) :
            \A j \in 1..Len(new_partitions[p]) :
                NearestChosen(new_partitions[p][j], p)

\* C9: in an assignment step every document goes to the partition whose
\* concept vector is most cosine-similar to it, to the lowest-indexed one
\* among several, and the concept vectors stay as they are while the
\* documents are assigned.
C9_AssignToNearestLowestIndex ==
    /\ []AssignedNearest
    /\ [][pc = "assign" => concepts' = concepts]_vars

C9_Witness ==
    /\ pc = "transfer"
    /\ k >= 3
    /\ NoEmptyPartition
    /\ \E d \in 0..(dc - 1) :
         \E p \in 0..(k - 1) :
            \E q \in (p + 1)..(k - 1) :
               /\ d \in Range(new_partitions[p])
               /\ ~IsNaN(Cos(d, p))
               /\ Cos(d, q) = Cos(d, p)

\* C10: every run of the loop terminates.
C10_Terminates == <>(pc = "done")

C10_Witness ==
    /\ pc = "done"
    /\ ~HasZeroDoc(input)
    /\ \E p \in 0..(k - 1) : p_sizes[p] = 0
====
